---- MODULE Spec2Model ----
(***************************************************************************)
(* Japanese dependency analyzer: DependencyParser (dependency-parser.ts),  *)
(* FiveW1HAnalyzer (five-w1h-analyzer.ts), KuromojiAnalyzer                *)
(* (kuromoji-analyzer.ts), SimpleJapaneseAnalyzer (simple-analyzer.ts) and *)
(* the JapaneseAnalyzer component (analyzer.tsx).                          *)
(*                                                                         *)
(* TLA+ strings are ASCII, so every Japanese string of the source is       *)
(* written in romaji, the original in the comment beside it.  A surface    *)
(* form is a sequence of characters, one string per character (kanji in    *)
(* capitals, kana in lower case), so that String.includes is a real        *)
(* substring search.  Indices are 0-based as in the source.  A confidence  *)
(* is written in tenths (8 is 0.8).                                        *)
(***************************************************************************)
EXTENDS Integers, Sequences, FiniteSets, TLC

VARIABLES morphemes, dependencies, fiveW1H, pc, baseline, probe,
          inputText, analysisResult, isLoading, isReady, kuromojiAnalyzer, promises, caught,
          patterns, tokenized

\* the state of the JapaneseAnalyzer component and of its KuromojiAnalyzer
uiVars == <<inputText, analysisResult, isLoading, isReady, kuromojiAnalyzer, promises, caught>>

\* the state of a SimpleJapaneseAnalyzer
simpleVars == <<patterns, tokenized>>

vars == <<morphemes, dependencies, fiveW1H, pc, baseline, probe, uiVars, simpleVars>>

(***************************************************************************)
(* Bounds of the model.                                                    *)
(***************************************************************************)
MaxText == 2        \* characters in the text area
MaxBuilds == 2      \* initialize calls on one KuromojiAnalyzer
MaxLen == 3

(***************************************************************************)
(* Part-of-speech tags (MorphemeToken.pos) and sub-categories.             *)
(***************************************************************************)
Meishi == "meishi"            \* 名詞 noun
Doushi == "doushi"            \* 動詞 verb
Keiyoushi == "keiyoushi"      \* 形容詞 adjective
Fukushi == "fukushi"          \* 副詞 adverb
Joshi == "joshi"              \* 助詞 particle
Jodoushi == "jodoushi"        \* 助動詞 auxiliary verb
Kigou == "kigou"              \* 記号 symbol
Daimeishi == "daimeishi"      \* 代名詞 pronoun
KoyuuMeishi == "koyuumeishi"  \* 固有名詞 proper noun
Chiiki == "chiiki"            \* 地域 region
Ippan == "ippan"              \* 一般 general

(***************************************************************************)
(* Dependency labels.                                                      *)
(***************************************************************************)
KakuKankei == "kaku-kankei"            \* 格関係 case relation
RentaiShuushoku == "rentai-shuushoku"  \* 連体修飾 adnominal modification
RenyouShuushoku == "renyou-shuushoku"  \* 連用修飾 adverbial modification
JutsugoKankei == "jutsugo-kankei"      \* 述語関係 predicate relation
IzonKankei == "izon-kankei"            \* 依存関係 general dependency

(***************************************************************************)
(* MorphemeToken: the fields the two analyzers read.                       *)
(***************************************************************************)
MorphemeToken(surface, pos, d1, d2, basic) ==
    [surface_form |-> surface, pos |-> pos, pos_detail_1 |-> d1,
     pos_detail_2 |-> d2, basic_form |-> basic]

Tokyo == MorphemeToken(<<"TOU", "KYOU">>, Meishi, KoyuuMeishi, Chiiki, <<"TOU", "KYOU">>)      \* 東京
Kare == MorphemeToken(<<"KARE">>, Meishi, Daimeishi, Ippan, <<"KARE">>)                        \* 彼
Daigakusei == MorphemeToken(<<"DAI", "GAKU", "SEI">>, Meishi, Ippan, "", <<"DAI", "GAKU", "SEI">>) \* 大学生
Eigo == MorphemeToken(<<"EI", "GO">>, Meishi, Ippan, "", <<"EI", "GO">>)                       \* 英語
Dare == MorphemeToken(<<"DARE">>, Daimeishi, "", "", <<"DARE">>)                               \* 誰
Wa == MorphemeToken(<<"ha">>, Joshi, "kakarijoshi", "", <<"ha">>)                              \* は
Ga == MorphemeToken(<<"ga">>, Joshi, "kakujoshi", Ippan, <<"ga">>)                             \* が
Wo == MorphemeToken(<<"wo">>, Joshi, "kakujoshi", Ippan, <<"wo">>)                             \* を
Oshie == MorphemeToken(<<"OSHI", "e">>, Doushi, "jiritsu", "", <<"OSHI", "e", "ru">>)          \* 教え (教える)
Yukkuri == MorphemeToken(<<"yu", "xtu", "ku", "ri">>, Fukushi, Ippan, "", <<"yu", "xtu", "ku", "ri">>) \* ゆっくり
Akai == MorphemeToken(<<"AKA", "i">>, Keiyoushi, "jiritsu", "", <<"AKA", "i">>)                \* 赤い
Ta == MorphemeToken(<<"ta">>, Jodoushi, "", "", <<"ta">>)                                      \* た
Maru == MorphemeToken(<<"maru">>, Kigou, "kuten", "", <<"maru">>)                              \* 。

Lexicon ==
    {Tokyo, Kare, Daigakusei, Eigo, Dare, Wa, Ga, Wo, Oshie, Yukkuri, Akai, Ta, Maru}

RECURSIVE SeqsUpTo(_, _)
SeqsUpTo(S, n) ==
    IF n = 0 THEN {<<>>}
    ELSE LET shorter == SeqsUpTo(S, n - 1)
         IN  shorter \cup {Append(s, x) : s \in {t \in shorter : Len(t) = n - 1}, x \in S}

Inputs == SeqsUpTo(Lexicon, MaxLen)

\* morphemes[i] with the source's 0-based index
At(ms, i) == ms[i + 1]

(***************************************************************************)
(* DependencyParser                                                        *)
(***************************************************************************)

\* the scan with the first index as its fallback
RECURSIVE scanRight_toFirst(_, _, _)
scanRight_toFirst(ms, start, wanted) ==
    IF start >= Len(ms) THEN 0
    ELSE IF At(ms, start).pos \in wanted THEN start
    ELSE scanRight_toFirst(ms, start + 1, wanted)

\* the for loop shared by the find*Target methods: the first index from
\* `start` on whose pos is one of `wanted`, else the last index
RECURSIVE scanRight(_, _, _)
scanRight(ms, start, wanted) ==
    IF start >= Len(ms) THEN Len(ms) - 1
    ELSE IF At(ms, start).pos \in wanted THEN start
    ELSE scanRight(ms, start + 1, wanted)

findNounTarget(ms, index) == scanRight(ms, index + 1, {Joshi, Doushi, Keiyoushi})

findVerbTarget(ms, index) == scanRight(ms, index + 1, {Jodoushi, Kigou})

\* the adjective scan without the auxiliary verb
findAdjectiveTarget_nounOnly(ms, index) == scanRight(ms, index + 1, {Meishi})

findAdjectiveTarget(ms, index) == scanRight(ms, index + 1, {Meishi, Jodoushi})

\* the adverb attached to the word right after it
findAdverbTarget_adjacent(ms, index) == index + 1

findAdverbTarget(ms, index) == scanRight(ms, index + 1, {Doushi, Keiyoushi})

findParticleTarget(ms, index) == scanRight(ms, index + 1, {Doushi, Keiyoushi, Meishi})

\* the auxiliary verb attached to the word before it
findAuxiliaryTarget_previous(ms, index) == index - 1

\* the auxiliary verb scanning like the other categories
findAuxiliaryTarget_scan(ms, index) == scanRight(ms, index + 1, {Doushi, Kigou})

findAuxiliaryTarget(ms, index) == Len(ms) - 1

findDefaultTarget(ms, index) == scanRight(ms, index + 1, {Doushi, Meishi, Keiyoushi})

dispatchTarget(ms, currentIndex) ==
    LET current == At(ms, currentIndex)
    IN  CASE current.pos = Meishi -> findNounTarget(ms, currentIndex)
          [] current.pos = Doushi -> findVerbTarget(ms, currentIndex)
          [] current.pos = Keiyoushi -> findAdjectiveTarget(ms, currentIndex)
          [] current.pos = Fukushi -> findAdverbTarget(ms, currentIndex)
          [] current.pos = Joshi -> findParticleTarget(ms, currentIndex)
          [] current.pos = Jodoushi -> findAuxiliaryTarget(ms, currentIndex)
          [] OTHER -> findDefaultTarget(ms, currentIndex)

\* the last-token test off by one
findDependencyTarget_lastToo(ms, currentIndex) ==
    IF currentIndex >= Len(ms) THEN -1 ELSE dispatchTarget(ms, currentIndex)

findDependencyTarget(ms, currentIndex) ==
    IF currentIndex >= Len(ms) - 1 THEN -1 ELSE dispatchTarget(ms, currentIndex)

\* the table without its particle -> verb row
getDependencyLabel_noParticleVerb(from, to) ==
    IF from.pos = Meishi /\ to.pos = Joshi THEN KakuKankei
    ELSE IF from.pos = Keiyoushi /\ to.pos = Meishi THEN RentaiShuushoku
    ELSE IF from.pos = Fukushi /\ to.pos = Doushi THEN RenyouShuushoku
    ELSE IF from.pos = Doushi /\ to.pos = Jodoushi THEN JutsugoKankei
    ELSE IzonKankei

getDependencyLabel(from, to) ==
    IF from.pos = Meishi /\ to.pos = Joshi THEN KakuKankei
    ELSE IF from.pos = Keiyoushi /\ to.pos = Meishi THEN RentaiShuushoku
    ELSE IF from.pos = Fukushi /\ to.pos = Doushi THEN RenyouShuushoku
    ELSE IF from.pos = Joshi /\ to.pos = Doushi THEN KakuKankei
    ELSE IF from.pos = Doushi /\ to.pos = Jodoushi THEN JutsugoKankei
    ELSE IzonKankei

DependencyRelation(from, to, label) ==
    [fromIndex |-> from, toIndex |-> to, label |-> label]

\* the loop of parseDependencies from index i on, `deps` the array so far
RECURSIVE parseLoop(_, _, _)
parseLoop(ms, i, deps) ==
    IF i >= Len(ms) THEN deps
    ELSE LET target == findDependencyTarget(ms, i)
         IN  parseLoop(ms, i + 1,
                 IF target # -1
                 THEN Append(deps, DependencyRelation(i, target,
                                       getDependencyLabel(At(ms, i), At(ms, target))))
                 ELSE deps)

\* the array kept across calls instead of created by each call
parseDependencies_sharedArray(ms) == parseLoop(ms, 0, dependencies)

\* a ROOT edge appended for the sentence end
parseDependencies_withRoot(ms) ==
    Append(parseLoop(ms, 0, <<>>), DependencyRelation(Len(ms) - 1, -1, "ROOT"))

parseDependencies(ms) == parseLoop(ms, 0, <<>>)

(***************************************************************************)
(* FiveW1HAnalyzer                                                         *)
(***************************************************************************)

\* the confidence kept as a percentage
FiveW1HElement_percent(category, text, indices, confidence) ==
    [category |-> category, text |-> text, morphemeIndices |-> indices,
     confidence |-> confidence * 10]

FiveW1HElement(category, text, indices, confidence) ==
    [category |-> category, text |-> text, morphemeIndices |-> indices,
     confidence |-> confidence]

\* String.prototype.includes
includes(surface, word) ==
    \E k \in 0..(Len(surface) - Len(word)) : SubSeq(surface, k + 1, k + Len(word)) = word

\* 人 方 者 学生 先生 友達 家族 母 父 子 私 僕 君 あなた
personWords ==
    {<<"HITO">>, <<"KATA">>, <<"MONO">>, <<"GAKU", "SEI">>, <<"SEN", "SEI">>,
     <<"TOMO", "DACHI">>, <<"KA", "ZOKU">>, <<"HAHA">>, <<"CHICHI">>, <<"KO">>,
     <<"WATASHI">>, <<"BOKU">>, <<"KIMI">>, <<"a", "na", "ta">>}

\* 今日 昨日 明日 今 いま 朝 昼 夜 時 分 秒 年 月 日 曜日
timeWords ==
    {<<"IMA", "HI">>, <<"SAKU", "HI">>, <<"MYOU", "HI">>, <<"IMA">>, <<"i", "ma">>,
     <<"ASA">>, <<"HIRU">>, <<"YORU">>, <<"JI">>, <<"FUN">>, <<"BYOU">>, <<"NEN">>,
     <<"TSUKI">>, <<"HI">>, <<"YOU", "HI">>}

\* いつも たまに よく すぐ もう まだ さっき これから
timeAdverbs ==
    {<<"i", "tsu", "mo">>, <<"ta", "ma", "ni">>, <<"yo", "ku">>, <<"su", "gu">>,
     <<"mo", "u">>, <<"ma", "da">>, <<"sa", "xtu", "ki">>, <<"ko", "re", "ka", "ra">>}

\* ゆっくり 急いで 丁寧に 静かに 大きく 小さく しっかり きちんと
mannerAdverbs ==
    {<<"yu", "xtu", "ku", "ri">>, <<"ISO", "i", "de">>, <<"TEI", "NEI", "ni">>,
     <<"SHIZU", "ka", "ni">>, <<"DAI", "ki", "ku">>, <<"CHII", "sa", "ku">>,
     <<"shi", "xtu", "ka", "ri">>, <<"ki", "chi", "n", "to">>}

\* the topic particle は alone
hasSubjectMarker_waOnly(ms, index) ==
    IF index + 1 < Len(ms)
    THEN At(ms, index + 1).surface_form = <<"ha">>
    ELSE FALSE

\* the boundary answered with true
hasSubjectMarker_trueAtEnd(ms, index) ==
    IF index + 1 < Len(ms)
    THEN LET nextMorpheme == At(ms, index + 1)
         IN  nextMorpheme.surface_form = <<"ha">> \/ nextMorpheme.surface_form = <<"ga">>
    ELSE TRUE

\* は が
hasSubjectMarker(ms, index) ==
    IF index + 1 < Len(ms)
    THEN LET nextMorpheme == At(ms, index + 1)
         IN  nextMorpheme.surface_form = <<"ha">> \/ nextMorpheme.surface_form = <<"ga">>
    ELSE FALSE

\* を
hasObjectMarker(ms, index) ==
    IF index + 1 < Len(ms)
    THEN At(ms, index + 1).surface_form = <<"wo">>
    ELSE FALSE

\* で に から へ
hasLocationMarker(ms, index) ==
    IF index + 1 < Len(ms)
    THEN At(ms, index + 1).surface_form \in {<<"de">>, <<"ni">>, <<"ka", "ra">>, <<"he">>}
    ELSE FALSE

\* で alone
hasMethodMarker_deOnly(ms, index) ==
    IF index + 1 < Len(ms)
    THEN At(ms, index + 1).surface_form = <<"de">>
    ELSE FALSE

\* で により
hasMethodMarker(ms, index) ==
    IF index + 1 < Len(ms)
    THEN LET nextMorpheme == At(ms, index + 1)
         IN  nextMorpheme.surface_form = <<"de">> \/ nextMorpheme.surface_form = <<"ni", "yo", "ri">>
    ELSE FALSE

\* equality with a person word instead of containment
isPersonNoun_exact(surface) == surface \in personWords

isPersonNoun(surface) == \E word \in personWords : includes(surface, word)

isTimeExpression(surface) == \E word \in timeWords : includes(surface, word)

\* containment of a time adverb instead of equality with one
isTimeAdverb_contains(surface) == \E word \in timeAdverbs : includes(surface, word)

isTimeAdverb(surface) == surface \in timeAdverbs

\* ので から ため
isReasonMarker(surface) == surface \in {<<"no", "de">>, <<"ka", "ra">>, <<"ta", "me">>}

isMannerAdverb(surface) == surface \in mannerAdverbs

\* the null of `string | null`; no surface form is this sequence
JsNull == <<"null">>

\* the marker's own surface taken when nothing stands before it
extractReasonPhrase_self(ms, reasonMarkerIndex) ==
    IF reasonMarkerIndex > 0 THEN At(ms, reasonMarkerIndex - 1).surface_form
    ELSE At(ms, reasonMarkerIndex).surface_form

extractReasonPhrase(ms, reasonMarkerIndex) ==
    IF reasonMarkerIndex > 0 THEN At(ms, reasonMarkerIndex - 1).surface_form ELSE JsNull

\* the marker's own index alone
getReasonIndices_markerOnly(ms, reasonMarkerIndex) == <<reasonMarkerIndex>>

getReasonIndices(ms, reasonMarkerIndex) ==
    IF reasonMarkerIndex > 0 THEN <<reasonMarkerIndex - 1, reasonMarkerIndex>>
    ELSE <<reasonMarkerIndex>>

\* `if (reasonText)`: null and the empty string are falsy
truthy(text) == text # JsNull /\ text # <<>>

RECURSIVE extractWhoLoop(_, _, _)
extractWhoLoop(ms, i, elements) ==
    IF i >= Len(ms) THEN elements
    ELSE LET morpheme == At(ms, i)
             isSubject == hasSubjectMarker(ms, i)
             confidence == IF isSubject THEN 8 ELSE 4
         IN  extractWhoLoop(ms, i + 1,
                 IF /\ \/ /\ morpheme.pos = Meishi
                          /\ \/ morpheme.pos_detail_1 = KoyuuMeishi
                             \/ morpheme.pos_detail_1 = Daimeishi
                             \/ isPersonNoun(morpheme.surface_form)
                       \/ morpheme.pos = Daimeishi
                    /\ confidence > 3
                 THEN Append(elements,
                          FiveW1HElement("who", morpheme.surface_form, <<i>>, confidence))
                 ELSE elements)

\* the subject read off the edge list: a case-relation edge leaves the morpheme
RECURSIVE extractWhoLoop_byEdges(_, _, _, _)
extractWhoLoop_byEdges(ms, deps, i, elements) ==
    IF i >= Len(ms) THEN elements
    ELSE LET morpheme == At(ms, i)
             isSubject == \E k \in 1..Len(deps) :
                              deps[k].fromIndex = i /\ deps[k].label = KakuKankei
             confidence == IF isSubject THEN 8 ELSE 4
         IN  extractWhoLoop_byEdges(ms, deps, i + 1,
                 IF /\ \/ /\ morpheme.pos = Meishi
                          /\ \/ morpheme.pos_detail_1 = KoyuuMeishi
                             \/ morpheme.pos_detail_1 = Daimeishi
                             \/ isPersonNoun(morpheme.surface_form)
                       \/ morpheme.pos = Daimeishi
                    /\ confidence > 3
                 THEN Append(elements,
                          FiveW1HElement("who", morpheme.surface_form, <<i>>, confidence))
                 ELSE elements)

extractWho_byEdges(ms, deps) == extractWhoLoop_byEdges(ms, deps, 0, <<>>)

extractWho(ms, deps) == extractWhoLoop(ms, 0, <<>>)

RECURSIVE extractWhatLoop(_, _, _)
extractWhatLoop(ms, i, elements) ==
    IF i >= Len(ms) THEN elements
    ELSE LET morpheme == At(ms, i)
             afterVerb ==
                 IF morpheme.pos = Doushi
                 THEN Append(elements, FiveW1HElement("what", morpheme.basic_form, <<i>>, 7))
                 ELSE elements
         IN  extractWhatLoop(ms, i + 1,
                 IF morpheme.pos = Meishi /\ hasObjectMarker(ms, i)
                 THEN Append(afterVerb, FiveW1HElement("what", morpheme.surface_form, <<i>>, 8))
                 ELSE afterVerb)

\* a verb that follows "noun を" scored higher than a bare verb
RECURSIVE extractWhatLoop_objectAware(_, _, _)
extractWhatLoop_objectAware(ms, i, elements) ==
    IF i >= Len(ms) THEN elements
    ELSE LET morpheme == At(ms, i)
             hasObject == i >= 2 /\ At(ms, i - 2).pos = Meishi /\ hasObjectMarker(ms, i - 2)
             afterVerb ==
                 IF morpheme.pos = Doushi
                 THEN Append(elements, FiveW1HElement("what", morpheme.basic_form, <<i>>,
                                           IF hasObject THEN 9 ELSE 7))
                 ELSE elements
         IN  extractWhatLoop_objectAware(ms, i + 1,
                 IF morpheme.pos = Meishi /\ hasObjectMarker(ms, i)
                 THEN Append(afterVerb, FiveW1HElement("what", morpheme.surface_form, <<i>>, 8))
                 ELSE afterVerb)

extractWhat_objectAware(ms, deps) == extractWhatLoop_objectAware(ms, 0, <<>>)

\* the verb element taking the surface form instead of the basic form
RECURSIVE extractWhatLoop_surface(_, _, _)
extractWhatLoop_surface(ms, i, elements) ==
    IF i >= Len(ms) THEN elements
    ELSE LET morpheme == At(ms, i)
             afterVerb ==
                 IF morpheme.pos = Doushi
                 THEN Append(elements, FiveW1HElement("what", morpheme.surface_form, <<i>>, 7))
                 ELSE elements
         IN  extractWhatLoop_surface(ms, i + 1,
                 IF morpheme.pos = Meishi /\ hasObjectMarker(ms, i)
                 THEN Append(afterVerb, FiveW1HElement("what", morpheme.surface_form, <<i>>, 8))
                 ELSE afterVerb)

extractWhat_surface(ms, deps) == extractWhatLoop_surface(ms, 0, <<>>)

\* two passes over the morphemes: the objects first, the verbs after them
RECURSIVE extractWhatLoop_objects(_, _, _)
extractWhatLoop_objects(ms, i, elements) ==
    IF i >= Len(ms) THEN elements
    ELSE LET morpheme == At(ms, i)
         IN  extractWhatLoop_objects(ms, i + 1,
                 IF morpheme.pos = Meishi /\ hasObjectMarker(ms, i)
                 THEN Append(elements, FiveW1HElement("what", morpheme.surface_form, <<i>>, 8))
                 ELSE elements)

RECURSIVE extractWhatLoop_verbs(_, _, _)
extractWhatLoop_verbs(ms, i, elements) ==
    IF i >= Len(ms) THEN elements
    ELSE LET morpheme == At(ms, i)
         IN  extractWhatLoop_verbs(ms, i + 1,
                 IF morpheme.pos = Doushi
                 THEN Append(elements, FiveW1HElement("what", morpheme.basic_form, <<i>>, 7))
                 ELSE elements)

extractWhat_twoPass(ms, deps) ==
    extractWhatLoop_verbs(ms, 0, extractWhatLoop_objects(ms, 0, <<>>))

\* the object rule applied to any morpheme that を follows, verbs included
RECURSIVE extractWhatLoop_anyObject(_, _, _)
extractWhatLoop_anyObject(ms, i, elements) ==
    IF i >= Len(ms) THEN elements
    ELSE LET morpheme == At(ms, i)
             afterVerb ==
                 IF morpheme.pos = Doushi
                 THEN Append(elements, FiveW1HElement("what", morpheme.basic_form, <<i>>, 7))
                 ELSE elements
         IN  extractWhatLoop_anyObject(ms, i + 1,
                 IF hasObjectMarker(ms, i)
                 THEN Append(afterVerb, FiveW1HElement("what", morpheme.surface_form, <<i>>, 8))
                 ELSE afterVerb)

extractWhat_anyObject(ms, deps) == extractWhatLoop_anyObject(ms, 0, <<>>)

extractWhat(ms, deps) == extractWhatLoop(ms, 0, <<>>)

RECURSIVE extractWhenLoop(_, _, _)
extractWhenLoop(ms, i, elements) ==
    IF i >= Len(ms) THEN elements
    ELSE LET morpheme == At(ms, i)
             afterNoun ==
                 IF morpheme.pos = Meishi /\ isTimeExpression(morpheme.surface_form)
                 THEN Append(elements, FiveW1HElement("when", morpheme.surface_form, <<i>>, 9))
                 ELSE elements
         IN  extractWhenLoop(ms, i + 1,
                 IF morpheme.pos = Fukushi /\ isTimeAdverb(morpheme.surface_form)
                 THEN Append(afterNoun, FiveW1HElement("when", morpheme.surface_form, <<i>>, 8))
                 ELSE afterNoun)

extractWhen(ms, deps) == extractWhenLoop(ms, 0, <<>>)

RECURSIVE extractWhereLoop(_, _, _)
extractWhereLoop(ms, i, elements) ==
    IF i >= Len(ms) THEN elements
    ELSE LET morpheme == At(ms, i)
             afterMarker ==
                 IF morpheme.pos = Meishi /\ hasLocationMarker(ms, i)
                 THEN Append(elements, FiveW1HElement("where", morpheme.surface_form, <<i>>, 8))
                 ELSE elements
         IN  extractWhereLoop(ms, i + 1,
                 IF /\ morpheme.pos = Meishi
                    /\ morpheme.pos_detail_1 = KoyuuMeishi
                    /\ morpheme.pos_detail_2 = Chiiki
                 THEN Append(afterMarker, FiveW1HElement("where", morpheme.surface_form, <<i>>, 9))
                 ELSE afterMarker)

\* the place-name rule as the else branch of the marker rule
RECURSIVE extractWhereLoop_elseIf(_, _, _)
extractWhereLoop_elseIf(ms, i, elements) ==
    IF i >= Len(ms) THEN elements
    ELSE LET morpheme == At(ms, i)
         IN  extractWhereLoop_elseIf(ms, i + 1,
                 IF morpheme.pos = Meishi /\ hasLocationMarker(ms, i)
                 THEN Append(elements, FiveW1HElement("where", morpheme.surface_form, <<i>>, 8))
                 ELSE IF /\ morpheme.pos = Meishi
                         /\ morpheme.pos_detail_1 = KoyuuMeishi
                         /\ morpheme.pos_detail_2 = Chiiki
                 THEN Append(elements, FiveW1HElement("where", morpheme.surface_form, <<i>>, 9))
                 ELSE elements)

extractWhere_elseIf(ms, deps) == extractWhereLoop_elseIf(ms, 0, <<>>)

extractWhere(ms, deps) == extractWhereLoop(ms, 0, <<>>)

RECURSIVE extractWhyLoop(_, _, _)
extractWhyLoop(ms, i, elements) ==
    IF i >= Len(ms) THEN elements
    ELSE LET morpheme == At(ms, i)
             reasonText == extractReasonPhrase(ms, i)
         IN  extractWhyLoop(ms, i + 1,
                 IF /\ morpheme.pos = Joshi
                    /\ isReasonMarker(morpheme.surface_form)
                    /\ truthy(reasonText)
                 THEN Append(elements,
                          FiveW1HElement("why", reasonText, getReasonIndices(ms, i), 7))
                 ELSE elements)

extractWhy(ms, deps) == extractWhyLoop(ms, 0, <<>>)

RECURSIVE extractHowLoop(_, _, _)
extractHowLoop(ms, i, elements) ==
    IF i >= Len(ms) THEN elements
    ELSE LET morpheme == At(ms, i)
             afterAdverb ==
                 IF morpheme.pos = Fukushi /\ isMannerAdverb(morpheme.surface_form)
                 THEN Append(elements, FiveW1HElement("how", morpheme.surface_form, <<i>>, 7))
                 ELSE elements
         IN  extractHowLoop(ms, i + 1,
                 IF morpheme.pos = Meishi /\ hasMethodMarker(ms, i)
                 THEN Append(afterAdverb, FiveW1HElement("how", morpheme.surface_form, <<i>>, 6))
                 ELSE afterAdverb)

extractHow(ms, deps) == extractHowLoop(ms, 0, <<>>)

\* the result object as analyze creates it, before the six passes
FiveW1HResult ==
    [who |-> <<>>, what |-> <<>>, when |-> <<>>, where |-> <<>>, why |-> <<>>, how |-> <<>>]

analyze(ms, deps) ==
    [who |-> extractWho(ms, deps),
     what |-> extractWhat(ms, deps),
     when |-> extractWhen(ms, deps),
     where |-> extractWhere(ms, deps),
     why |-> extractWhy(ms, deps),
     how |-> extractHow(ms, deps)]

(***************************************************************************)
(* The caller (analyzeText in analyzer.tsx): tokenize, parseDependencies,  *)
(* analyze, in this order, on one morpheme sequence.                       *)
(*   morphemes     the sequence the caller holds                           *)
(*   dependencies  the edge list the last parseDependencies returned       *)
(*   fiveW1H       the result the last analyze returned                    *)
(*   pc            "tokenized", "parsed", "analyzed", or "reanalyzed"      *)
(*                 after the second run on the sequence without its nouns  *)
(*   baseline      the input and result of the run before the nouns were   *)
(*                 removed                                                 *)
(*   probe         the input and edge list of the first parseDependencies  *)
(*                 call; whether a call on another input followed it, and  *)
(*                 whether a call on the first input followed that one     *)
(* The component around it (JapaneseAnalyzer in analyzer.tsx) and the      *)
(* objects it holds:                                                       *)
(*   inputText, analysisResult, isLoading, isReady   the useState values   *)
(*   kuromojiAnalyzer   the fields tokenizer and isInitialized             *)
(*   promises      one entry per initialize call: "pending", "resolved",   *)
(*                 "rejected", then "awaited" or "failed" once the caller  *)
(*                 has run its continuation or its catch block             *)
(*   caught        the error the last analyzeText run caught, or "none"    *)
(*   patterns      lastIndex of the three global regular expressions of a  *)
(*                 SimpleJapaneseAnalyzer                                  *)
(*   tokenized     the last tokenize call on that instance: its text, the  *)
(*                 type given to each character, the tokens returned, and  *)
(*                 whether the call before it had the same text and        *)
(*                 whether it returned the same tokens                     *)
(***************************************************************************)
\* useState(null)
NoAnalysisResult == [isNull |-> TRUE]

\* private tokenizer = null; private isInitialized = false
NewKuromojiAnalyzer == [tokenizer |-> "null", isInitialized |-> FALSE]

\* the component before its effects have run
UiStart ==
    /\ inputText = <<>>
    /\ analysisResult = NoAnalysisResult
    /\ isLoading = FALSE
    /\ isReady = FALSE
    /\ kuromojiAnalyzer = NewKuromojiAnalyzer
    /\ promises = <<>>
    /\ caught = "none"

\* a regular expression literal starts with lastIndex 0
NewPatterns == [hiragana |-> 0, katakana |-> 0, kanji |-> 0]

NotTokenized ==
    [called |-> FALSE, text |-> <<>>, types |-> <<>>, tokens |-> <<>>,
     repeated |-> FALSE, same |-> FALSE]

SimpleStart == patterns = NewPatterns /\ tokenized = NotTokenized

NoBaseline == [set |-> FALSE, morphemes |-> <<>>, fiveW1H |-> FiveW1HResult]

NoProbe == [set |-> FALSE, input |-> <<>>, deps |-> <<>>, other |-> FALSE, rerun |-> FALSE]

\* the probe after a parseDependencies call on ms that returned deps
Probed(ms, deps) ==
    IF ~probe.set
    THEN [set |-> TRUE, input |-> ms, deps |-> deps, other |-> FALSE, rerun |-> FALSE]
    ELSE IF ms = probe.input
    THEN [probe EXCEPT !.rerun = @ \/ probe.other]
    ELSE [probe EXCEPT !.other = TRUE]

StartWith(inputs) ==
    /\ morphemes \in inputs
    /\ dependencies = <<>>
    /\ fiveW1H = FiveW1HResult
    /\ pc = "tokenized"
    /\ baseline = NoBaseline
    /\ probe = NoProbe
    /\ UiStart
    /\ SimpleStart

Init == StartWith(Inputs)

\* const dependencies = dependencyParser.parseDependencies(morphemes)
ParseDependencies ==
    /\ pc \in {"tokenized", "parsed", "analyzed"}
    /\ dependencies' = parseDependencies(morphemes)
    /\ probe' = Probed(morphemes, dependencies')
    /\ pc' = "parsed"
    /\ UNCHANGED <<morphemes, fiveW1H, baseline, uiVars, simpleVars>>

\* const fiveW1H = fiveW1HAnalyzer.analyze(morphemes, dependencies)
Analyze ==
    /\ pc = "parsed"
    /\ fiveW1H' = analyze(morphemes, dependencies)
    /\ pc' = "analyzed"
    /\ UNCHANGED <<morphemes, dependencies, baseline, probe, uiVars, simpleVars>>

\* the sequence without its noun morphemes
RECURSIVE removeNouns(_)
removeNouns(ms) ==
    IF ms = <<>> THEN <<>>
    ELSE IF Head(ms).pos = Meishi THEN removeNouns(Tail(ms))
    ELSE <<Head(ms)>> \o removeNouns(Tail(ms))

\* the whole analysis run again on the sequence without its nouns
AnalyzeWithoutNouns ==
    /\ pc = "analyzed"
    /\ ~baseline.set
    /\ baseline' = [set |-> TRUE, morphemes |-> morphemes, fiveW1H |-> fiveW1H]
    /\ morphemes' = removeNouns(morphemes)
    /\ dependencies' = parseDependencies(morphemes')
    /\ fiveW1H' = analyze(morphemes', dependencies')
    /\ pc' = "reanalyzed"
    /\ UNCHANGED <<probe, uiVars, simpleVars>>

Next == ParseDependencies \/ Analyze \/ AnalyzeWithoutNouns

Spec == Init /\ [][Next]_vars

(***************************************************************************)
(* Repeated calls: the caller tokenizes another text and runs again, the   *)
(* same DependencyParser serving every call.                               *)
(***************************************************************************)
RerunLexicon == {Eigo, Wo, Oshie}

RerunInputs == SeqsUpTo(RerunLexicon, MaxLen)

\* analyzeText called again: const morphemes = kuromojiAnalyzer.tokenize(inputText)
\* for the text now in the input; the call's dependencies and fiveW1H are not
\* assigned yet
Tokenize ==
    /\ pc \in {"parsed", "analyzed"}
    /\ \E ms \in RerunInputs : morphemes' = ms
    /\ dependencies' = <<>>
    /\ fiveW1H' = FiveW1HResult
    /\ pc' = "tokenized"
    /\ UNCHANGED <<baseline, probe, uiVars, simpleVars>>

InitRerun == StartWith(RerunInputs)

NextRerun == ParseDependencies \/ Analyze \/ Tokenize

SpecRerun == InitRerun /\ [][NextRerun]_vars

(***************************************************************************)
(* The same run on sequences over the words the role rules look for.       *)
(***************************************************************************)
Maiasa == MorphemeToken(<<"MAI", "ASA">>, Meishi, "fukushikanou", "", <<"MAI", "ASA">>)         \* 毎朝
TameNoun == MorphemeToken(<<"ta", "me">>, Meishi, "hijiritsu", "fukushikanou", <<"ta", "me">>)  \* ため
Sugu == MorphemeToken(<<"su", "gu">>, Fukushi, "joshiruisetsuzoku", "", <<"su", "gu">>)         \* すぐ
Mousugu == MorphemeToken(<<"mo", "u", "su", "gu">>, Fukushi, Ippan, "", <<"mo", "u", "su", "gu">>) \* もうすぐ
De == MorphemeToken(<<"de">>, Joshi, "kakujoshi", Ippan, <<"de">>)                              \* で
Ni == MorphemeToken(<<"ni">>, Joshi, "kakujoshi", Ippan, <<"ni">>)                              \* に
He == MorphemeToken(<<"he">>, Joshi, "kakujoshi", Ippan, <<"he">>)                              \* へ
Kara == MorphemeToken(<<"ka", "ra">>, Joshi, "setsuzokujoshi", "", <<"ka", "ra">>)              \* から
Node == MorphemeToken(<<"no", "de">>, Joshi, "setsuzokujoshi", "", <<"no", "de">>)              \* ので
Niyori == MorphemeToken(<<"ni", "yo", "ri">>, Joshi, "kakujoshi", "rengo", <<"ni", "yo", "ri">>) \* により

RoleLexicon ==
    {Tokyo, Eigo, Maiasa, TameNoun, Sugu, Mousugu, Yukkuri, De, Ni, He, Kara, Node,
     Niyori, Wo, Oshie}

RoleInputs == SeqsUpTo(RoleLexicon, MaxLen)

InitRoles == StartWith(RoleInputs)

NextRoles == ParseDependencies \/ Analyze

SpecRoles == InitRoles /\ [][NextRoles]_vars

(***************************************************************************)
(* analyze called again on the same sequence with another edge list: the   *)
(* empty one, the one parseDependencies returns, or any single edge.       *)
(*   pc            "edgesGiven" after such a call                          *)
(*   baseline      the result analyze gave with the parser's edge list     *)
(***************************************************************************)
EdgeLexicon == {Daigakusei, Ga, Wo, Oshie}

EdgeInputs == SeqsUpTo(EdgeLexicon, MaxLen)

DependencyLabels ==
    {KakuKankei, RentaiShuushoku, RenyouShuushoku, JutsugoKankei, IzonKankei}

EdgeListsFor(ms) ==
    {<<>>, parseDependencies(ms)}
        \cup {<<DependencyRelation(from, to, label)>> :
                  from \in 0..Len(ms), to \in 0..Len(ms), label \in DependencyLabels}

\* fiveW1HAnalyzer.analyze(morphemes, edges)
AnalyzeWithEdges ==
    /\ pc = "analyzed"
    /\ baseline' = [set |-> TRUE, morphemes |-> morphemes, fiveW1H |-> fiveW1H]
    /\ \E edges \in EdgeListsFor(morphemes) :
           /\ dependencies' = edges
           /\ fiveW1H' = analyze(morphemes, edges)
    /\ pc' = "edgesGiven"
    /\ UNCHANGED <<morphemes, probe, uiVars, simpleVars>>

InitEdges == StartWith(EdgeInputs)

NextEdges == ParseDependencies \/ Analyze \/ AnalyzeWithEdges

SpecEdges == InitEdges /\ [][NextEdges]_vars

(***************************************************************************)
(* The example of the README, 先生が教室で学生にゆっくり英語を教えました。, *)
(* as the tokenizer splits it, and every contiguous part of it.            *)
(***************************************************************************)
Sensei == MorphemeToken(<<"SEN", "SEI">>, Meishi, Ippan, "", <<"SEN", "SEI">>)                  \* 先生
Kyoushitsu == MorphemeToken(<<"OSHI", "SHITSU">>, Meishi, Ippan, "", <<"OSHI", "SHITSU">>)      \* 教室
Gakusei == MorphemeToken(<<"GAKU", "SEI">>, Meishi, Ippan, "", <<"GAKU", "SEI">>)               \* 学生
Mashi == MorphemeToken(<<"ma", "shi">>, Jodoushi, "", "", <<"ma", "su">>)                       \* まし (ます)

ExampleSentence ==
    <<Sensei, Ga, Kyoushitsu, De, Gakusei, Ni, Yukkuri, Eigo, Wo, Oshie, Mashi, Ta, Maru>>

ExampleInputs ==
    {<<>>} \cup {SubSeq(ExampleSentence, a, b) :
                     a \in 1..Len(ExampleSentence), b \in 1..Len(ExampleSentence)}

InitExample == StartWith(ExampleInputs)

NextExample == ParseDependencies \/ Analyze

SpecExample == InitExample /\ [][NextExample]_vars

(***************************************************************************)
(* KuromojiAnalyzer (kuromoji-analyzer.ts) and the JapaneseAnalyzer        *)
(* component that holds one (analyzer.tsx, the kuromoji version).          *)
(* A text is a sequence of characters; "sp" is the space.  The dictionary  *)
(* of the library is outside the repository: here it knows 英語 and を,     *)
(* takes any other character as a one-character unknown noun without a    *)
(* basic form and the space as a symbol.                                   *)
(***************************************************************************)
UiChars == {"EI", "GO", "wo", "sp"}

Texts == SeqsUpTo(UiChars, MaxText)

\* String.prototype.trim
RECURSIVE trimStart(_)
trimStart(text) ==
    IF text # <<>> /\ Head(text) = "sp" THEN trimStart(Tail(text)) ELSE text

RECURSIVE trimEnd(_)
trimEnd(text) ==
    IF text # <<>> /\ text[Len(text)] = "sp"
    THEN trimEnd(SubSeq(text, 1, Len(text) - 1)) ELSE text

trim(text) == trimEnd(trimStart(text))

\* a token as the library returns it; an absent feature is the empty string
IpadicEntries ==
    {[surface_form |-> <<"EI", "GO">>, pos |-> Meishi, pos_detail_1 |-> Ippan,
      pos_detail_2 |-> "", basic_form |-> <<"EI", "GO">>],
     [surface_form |-> <<"wo">>, pos |-> Joshi, pos_detail_1 |-> "kakujoshi",
      pos_detail_2 |-> Ippan, basic_form |-> <<"wo">>]}

UnknownToken(char) ==
    [surface_form |-> <<char>>, pos |-> IF char = "sp" THEN Kigou ELSE Meishi,
     pos_detail_1 |-> IF char = "sp" THEN "kuuhaku" ELSE "", pos_detail_2 |-> "",
     basic_form |-> <<>>]

\* this.tokenizer.tokenize(text): the longest entry that starts the text
RECURSIVE ipadicTokenize(_)
ipadicTokenize(text) ==
    IF text = <<>> THEN <<>>
    ELSE LET matching == {e \in IpadicEntries :
                              /\ Len(e.surface_form) <= Len(text)
                              /\ SubSeq(text, 1, Len(e.surface_form)) = e.surface_form}
             token == IF matching = {} THEN UnknownToken(Head(text))
                      ELSE CHOOSE e \in matching :
                               \A f \in matching : Len(f.surface_form) <= Len(e.surface_form)
         IN  <<token>> \o ipadicTokenize(SubSeq(text, Len(token.surface_form) + 1, Len(text)))

\* tokens.map(token => ({...})): basic_form || surface_form
toMorphemeToken(token) ==
    MorphemeToken(token.surface_form, token.pos, token.pos_detail_1, token.pos_detail_2,
                  IF token.basic_form # <<>> THEN token.basic_form ELSE token.surface_form)

NotInitialized == "Analyzer not initialized. Call initialize() first."

\* KuromojiAnalyzer.tokenize; whether the library call itself throws is its own
\* affair (libraryThrows)
tokenize(analyzer, text, libraryThrows) ==
    IF analyzer.tokenizer \in {"null", "undefined"}
    THEN [threw |-> TRUE, error |-> NotInitialized, tokens |-> <<>>]
    ELSE IF libraryThrows
    THEN [threw |-> TRUE, error |-> "tokenizer error", tokens |-> <<>>]
    ELSE [threw |-> FALSE, error |-> "none",
          tokens |-> [k \in 1..Len(ipadicTokenize(text)) |->
                          toMorphemeToken(ipadicTokenize(text)[k])]]

\* return this.isInitialized && this.tokenizer !== null
isReadyMethod(analyzer) == analyzer.isInitialized /\ analyzer.tokenizer # "null"

\* the build callback without its error branch: the tokenizer argument, which
\* is undefined after an error, is stored and the promise resolved
buildCallback_noErrCheck(analyzer, err) ==
    [analyzer |-> [tokenizer |-> IF err THEN "undefined" ELSE "tokenizer",
                   isInitialized |-> TRUE],
     promise |-> "resolved"]

\* the flag set before the error is looked at
buildCallback_flagFirst(analyzer, err) ==
    IF err THEN [analyzer |-> [analyzer EXCEPT !.isInitialized = TRUE], promise |-> "rejected"]
    ELSE [analyzer |-> [tokenizer |-> "tokenizer", isInitialized |-> TRUE],
          promise |-> "resolved"]

\* the callback given to build: the analyzer and the promise after it
buildCallback(analyzer, err) ==
    IF err THEN [analyzer |-> analyzer, promise |-> "rejected"]
    ELSE [analyzer |-> [tokenizer |-> "tokenizer", isInitialized |-> TRUE],
          promise |-> "resolved"]

\* some build has completed successfully
Succeeded == \E k \in 1..Len(promises) : promises[k] \in {"resolved", "awaited"}

\* kuromojiAnalyzer.initialize(): a build is started
Initialize ==
    /\ Len(promises) < MaxBuilds
    /\ promises' = Append(promises, "pending")
    /\ UNCHANGED <<morphemes, dependencies, fiveW1H, pc, baseline, probe, simpleVars,
                   inputText, analysisResult, isLoading, isReady, kuromojiAnalyzer, caught>>

\* the library calls the build callback, with or without an error
BuildCallback ==
    /\ \E k \in 1..Len(promises), err \in BOOLEAN :
           /\ promises[k] = "pending"
           /\ kuromojiAnalyzer' = buildCallback(kuromojiAnalyzer, err).analyzer
           /\ promises' = [promises EXCEPT ![k] = buildCallback(kuromojiAnalyzer, err).promise]
    /\ UNCHANGED <<morphemes, dependencies, fiveW1H, pc, baseline, probe, simpleVars,
                   inputText, analysisResult, isLoading, isReady, caught>>

\* kuromojiAnalyzer.tokenize(text) called directly
TokenizeCall ==
    /\ \E text \in Texts :
           LET call == tokenize(kuromojiAnalyzer, text, FALSE)
           IN  /\ morphemes' = IF call.threw THEN morphemes ELSE call.tokens
               /\ caught' = call.error
               /\ pc' = IF call.threw THEN "failed" ELSE "tokenized"
    /\ UNCHANGED <<dependencies, fiveW1H, baseline, probe, simpleVars,
                   inputText, analysisResult, isLoading, isReady, kuromojiAnalyzer, promises>>

InitKuromoji ==
    /\ morphemes = <<>>
    /\ dependencies = <<>>
    /\ fiveW1H = FiveW1HResult
    /\ pc = "idle"
    /\ baseline = NoBaseline
    /\ probe = NoProbe
    /\ UiStart
    /\ SimpleStart

NextKuromoji == Initialize \/ BuildCallback \/ TokenizeCall

SpecKuromoji == InitKuromoji /\ [][NextKuromoji]_vars

\* the useEffect of the component: initAnalyzer() calls initialize() once
Mount ==
    /\ promises = <<>>
    /\ promises' = <<"pending">>
    /\ UNCHANGED <<morphemes, dependencies, fiveW1H, pc, baseline, probe, simpleVars,
                   inputText, analysisResult, isLoading, isReady, kuromojiAnalyzer, caught>>

\* initAnalyzer after its await: setIsReady(true), or the catch block
InitAwaited ==
    /\ \E k \in 1..Len(promises) :
           /\ promises[k] \in {"resolved", "rejected"}
           /\ isReady' = (isReady \/ promises[k] = "resolved")
           /\ promises' = [promises EXCEPT ![k] = IF @ = "resolved" THEN "awaited" ELSE "failed"]
    /\ UNCHANGED <<morphemes, dependencies, fiveW1H, pc, baseline, probe, simpleVars,
                   inputText, analysisResult, isLoading, kuromojiAnalyzer, caught>>

\* onChange of the text area: a character typed or the last one deleted
Type ==
    /\ ~isLoading
    /\ \/ \E char \in UiChars :
              Len(inputText) < MaxText /\ inputText' = Append(inputText, char)
       \/ inputText # <<>> /\ inputText' = SubSeq(inputText, 1, Len(inputText) - 1)
    /\ UNCHANGED <<morphemes, dependencies, fiveW1H, pc, baseline, probe, simpleVars,
                   analysisResult, isLoading, isReady, kuromojiAnalyzer, promises, caught>>

\* disabled={isLoading || !isReady || !inputText.trim()}
ButtonDisabled == isLoading \/ ~isReady \/ trim(inputText) = <<>>

\* the try block left before setIsLoading(false), which stood at its end
analyzeTextEnd_noFinally(previous, threw, error, result) ==
    [analysisResult |-> IF threw THEN previous ELSE result,
     isLoading |-> threw,
     caught |-> error]

\* analyzeText from setIsLoading(true) to its finally block: the useState
\* values the next render sees
analyzeTextEnd(previous, threw, error, result) ==
    [analysisResult |-> IF threw THEN previous ELSE result,
     isLoading |-> FALSE,
     caught |-> error]

\* onClick of the button: analyzeText
AnalyzeText ==
    /\ ~ButtonDisabled
    /\ IF trim(inputText) = <<>> \/ ~isReadyMethod(kuromojiAnalyzer)
       THEN UNCHANGED <<morphemes, dependencies, fiveW1H, pc, analysisResult, isLoading, caught>>
       ELSE \E libraryThrows \in BOOLEAN :
                LET call == tokenize(kuromojiAnalyzer, inputText, libraryThrows)
                    deps == parseDependencies(call.tokens)
                    roles == analyze(call.tokens, deps)
                    end == analyzeTextEnd(analysisResult, call.threw, call.error,
                               [isNull |-> FALSE, morphemes |-> call.tokens,
                                dependencies |-> deps, fiveW1H |-> roles])
                IN  /\ morphemes' = IF call.threw THEN morphemes ELSE call.tokens
                    /\ dependencies' = IF call.threw THEN dependencies ELSE deps
                    /\ fiveW1H' = IF call.threw THEN fiveW1H ELSE roles
                    /\ pc' = IF call.threw THEN "failed" ELSE "analyzed"
                    /\ analysisResult' = end.analysisResult
                    /\ isLoading' = end.isLoading
                    /\ caught' = end.caught
    /\ UNCHANGED <<baseline, probe, simpleVars, inputText, isReady, kuromojiAnalyzer, promises>>

InitUI == InitKuromoji

NextUI == Mount \/ BuildCallback \/ InitAwaited \/ Type \/ AnalyzeText

SpecUI == InitUI /\ [][NextUI]_vars

(***************************************************************************)
(* SimpleJapaneseAnalyzer (simple-analyzer.ts).  Hiragana are written in   *)
(* lower case, katakana with a capital first letter, kanji in capitals.    *)
(***************************************************************************)
HiraganaChars == {"ta", "te", "wo", "ru", "i", "ku"}      \* [぀-ゟ]
KatakanaChars == {"Te"}                                   \* [゠-ヿ]
KanjiChars == {"EI", "GO"}                                \* [一-龯]
AlphabetChars == {"x"}                                    \* [a-zA-Z]
NumberChars == {"1"}                                      \* [0-9]

\* は が を に で と や の へ より から まで こそ でも なら ので けれど
particles ==
    {<<"ha">>, <<"ga">>, <<"wo">>, <<"ni">>, <<"de">>, <<"to">>, <<"ya">>, <<"no">>,
     <<"he">>, <<"yo", "ri">>, <<"ka", "ra">>, <<"ma", "de">>, <<"ko", "so">>,
     <<"de", "mo">>, <<"na", "ra">>, <<"no", "de">>, <<"ke", "re", "do">>}

\* だ である です ます た て で
auxiliaryVerbs ==
    {<<"da">>, <<"de", "a", "ru">>, <<"de", "su">>, <<"ma", "su">>, <<"ta">>, <<"te">>,
     <<"de">>}

\* RegExp.prototype.test of a global expression on a one-character string:
\* the search starts at lastIndex; a match moves lastIndex behind it, a failure
\* resets it to 0
regexTest(lastIndex, matches) ==
    IF lastIndex = 0 /\ matches THEN [result |-> TRUE, lastIndex |-> 1]
    ELSE [result |-> FALSE, lastIndex |-> 0]

\* getCharacterType: the type and the patterns after the tests made
getCharacterType(p, char) ==
    LET hiragana == regexTest(p.hiragana, char \in HiraganaChars)
        katakana == regexTest(p.katakana, char \in KatakanaChars)
        kanji == regexTest(p.kanji, char \in KanjiChars)
    IN  IF hiragana.result
        THEN [type |-> "hiragana", patterns |-> [p EXCEPT !.hiragana = hiragana.lastIndex]]
        ELSE IF katakana.result
        THEN [type |-> "katakana",
              patterns |-> [p EXCEPT !.hiragana = hiragana.lastIndex,
                                     !.katakana = katakana.lastIndex]]
        ELSE [type |-> IF kanji.result THEN "kanji"
                       ELSE IF char \in AlphabetChars THEN "alphabet"
                       ELSE IF char \in NumberChars THEN "number"
                       ELSE "symbol",
              patterns |-> [hiragana |-> hiragana.lastIndex,
                            katakana |-> katakana.lastIndex,
                            kanji |-> kanji.lastIndex]]

isParticle(char) == <<char>> \in particles

\* String.prototype.endsWith
endsWith(surface, suffix) ==
    /\ Len(suffix) <= Len(surface)
    /\ SubSeq(surface, Len(surface) - Len(suffix) + 1, Len(surface)) = suffix

determinePOS(surface, type) ==
    IF surface \in particles THEN Joshi
    ELSE IF \E aux \in auxiliaryVerbs : includes(surface, aux) THEN Jodoushi
    ELSE IF \E ending \in {"ru", "u", "ku", "gu", "su", "tsu", "nu", "bu", "mu"} :
                endsWith(surface, <<ending>>) THEN Doushi
    ELSE IF \/ endsWith(surface, <<"i">>)
            \/ endsWith(surface, <<"shi", "i">>)
            \/ endsWith(surface, <<"na", "i">>) THEN Keiyoushi
    ELSE IF endsWith(surface, <<"ku">>) /\ type = "hiragana" THEN Fukushi
    ELSE CASE type = "kanji" -> Meishi
           [] type = "katakana" -> Meishi
           [] type = "hiragana" -> IF Len(surface) = 1 THEN Joshi ELSE Meishi
           [] type = "alphabet" -> Meishi
           [] type = "number" -> "suushi"
           [] OTHER -> Kigou

\* String.fromCharCode(match.charCodeAt(0) - 0x60)
hiraganaOf(char) == IF char = "Te" THEN "te" ELSE char

getReading(surface, type) ==
    IF type = "hiragana" THEN surface
    ELSE IF type = "katakana"
    THEN [k \in 1..Len(surface) |->
              IF surface[k] \in KatakanaChars THEN hiraganaOf(surface[k]) ELSE surface[k]]
    ELSE surface

\* String.prototype.replace with a string pattern: the first occurrence
replace(surface, pattern, replacement) ==
    IF ~includes(surface, pattern) THEN surface
    ELSE LET at == CHOOSE k \in 0..(Len(surface) - Len(pattern)) :
                       /\ SubSeq(surface, k + 1, k + Len(pattern)) = pattern
                       /\ \A j \in 0..(k - 1) : SubSeq(surface, j + 1, j + Len(pattern)) # pattern
         IN  SubSeq(surface, 1, at) \o replacement
                 \o SubSeq(surface, at + Len(pattern) + 1, Len(surface))

getBasicForm(surface, pos) ==
    IF pos = Doushi /\ endsWith(surface, <<"ma", "su">>)
    THEN replace(surface, <<"ma", "su">>, <<"ru">>)
    ELSE IF pos = Doushi /\ endsWith(surface, <<"ta">>) THEN replace(surface, <<"ta">>, <<"ru">>)
    ELSE IF pos = Doushi /\ endsWith(surface, <<"te">>) THEN replace(surface, <<"te">>, <<"ru">>)
    ELSE IF pos = Keiyoushi /\ endsWith(surface, <<"ka", "xtu", "ta">>)
    THEN replace(surface, <<"ka", "xtu", "ta">>, <<"i">>)
    ELSE IF pos = Keiyoushi /\ endsWith(surface, <<"ku", "te">>)
    THEN replace(surface, <<"ku", "te">>, <<"i">>)
    ELSE surface

createMorpheme(surface, type) ==
    [surface |-> surface,
     pos |-> determinePOS(surface, type),
     reading |-> getReading(surface, type),
     basicForm |-> getBasicForm(surface, determinePOS(surface, type))]

\* the loop of refineMorphemes from index i (0-based)
RECURSIVE refineLoop(_, _, _)
refineLoop(ms, i, refined) ==
    IF i >= Len(ms) THEN refined
    ELSE LET current == At(ms, i)
         IN  IF trim(current.surface) = <<>> THEN refineLoop(ms, i + 1, refined)
             ELSE IF /\ i < Len(ms) - 1
                     /\ At(ms, i + 1).pos = Jodoushi
                     /\ current.pos # Kigou
             THEN refineLoop(ms, i + 2,
                      Append(refined,
                          [surface |-> current.surface \o At(ms, i + 1).surface,
                           pos |-> current.pos,
                           reading |-> current.reading \o At(ms, i + 1).reading,
                           basicForm |-> current.basicForm]))
             ELSE refineLoop(ms, i + 1, Append(refined, current))

refineMorphemes(ms) == refineLoop(ms, 0, <<>>)

\* the loop of tokenize from character i (0-based): the tokens before
\* refinement, the type given to each character, the patterns at the end
RECURSIVE tokenizeLoop(_, _, _, _, _, _, _)
tokenizeLoop(text, i, p, tokens, currentToken, currentType, types) ==
    IF i >= Len(text)
    THEN [tokens |-> IF currentToken # <<>>
                     THEN Append(tokens, createMorpheme(currentToken, currentType))
                     ELSE tokens,
          types |-> types, patterns |-> p]
    ELSE LET char == At(text, i)
             typed == getCharacterType(p, char)
         IN  IF currentType # typed.type \/ isParticle(char)
             THEN tokenizeLoop(text, i + 1, typed.patterns,
                      IF currentToken # <<>>
                      THEN Append(tokens, createMorpheme(currentToken, currentType))
                      ELSE tokens,
                      <<char>>, typed.type, Append(types, typed.type))
             ELSE tokenizeLoop(text, i + 1, typed.patterns, tokens,
                      Append(currentToken, char), currentType, Append(types, typed.type))

\* SimpleJapaneseAnalyzer.tokenize on an instance whose patterns are p
simpleTokenize(p, text) ==
    LET run == tokenizeLoop(text, 0, p, <<>>, <<>>, "", <<>>)
    IN  [tokens |-> refineMorphemes(run.tokens), types |-> run.types,
         patterns |-> run.patterns]

SimpleChars == {"ta", "Te", "EI", "sp"}

SimpleTexts == SeqsUpTo(SimpleChars, MaxText)

\* new SimpleJapaneseAnalyzer()
Construct ==
    /\ tokenized.called
    /\ patterns' = NewPatterns
    /\ tokenized' = NotTokenized
    /\ UNCHANGED <<morphemes, dependencies, fiveW1H, pc, baseline, probe, uiVars>>

\* simpleAnalyzer.tokenize(text)
SimpleTokenize ==
    /\ \E text \in SimpleTexts :
           LET run == simpleTokenize(patterns, text)
           IN  /\ patterns' = run.patterns
               /\ tokenized' = [called |-> TRUE, text |-> text, types |-> run.types,
                                tokens |-> run.tokens,
                                repeated |-> tokenized.called /\ tokenized.text = text,
                                same |-> tokenized.tokens = run.tokens]
    /\ UNCHANGED <<morphemes, dependencies, fiveW1H, pc, baseline, probe, uiVars>>

InitSimple == InitKuromoji

NextSimple == Construct \/ SimpleTokenize

SpecSimple == InitSimple /\ [][NextSimple]_vars

(***************************************************************************)
(* Properties                                                              *)
(***************************************************************************)

\* dependencies is what parseDependencies returned for morphemes
Parsed == pc \in {"parsed", "analyzed", "reanalyzed"}

\* fiveW1H is what analyze returned for morphemes
Analyzed == pc \in {"analyzed", "reanalyzed"}

LastIndex == Len(morphemes) - 1

EdgeIndices == 1..Len(dependencies)

PosAt(i) == At(morphemes, i).pos

\* the candidate table of the specification, by source pos
CandidateSet(pos) ==
    CASE pos = Meishi -> {Joshi, Doushi, Keiyoushi}
      [] pos = Doushi -> {Jodoushi, Kigou}
      [] pos = Keiyoushi -> {Meishi, Jodoushi}
      [] pos = Fukushi -> {Doushi, Keiyoushi}
      [] pos = Joshi -> {Doushi, Keiyoushi, Meishi}
      [] OTHER -> {Doushi, Meishi, Keiyoushi}

\* the indices right of i whose pos is a candidate for the pos at i
Matches(i) == {j \in (i + 1)..LastIndex : PosAt(j) \in CandidateSet(PosAt(i))}

\* the targets of the edges that leave index i
TargetsOf(i) == {dependencies[k].toIndex : k \in {e \in EdgeIndices : dependencies[e].fromIndex = i}}

\* C1: parseDependencies returns n-1 edges for n >= 2 morphemes and none for
\* n <= 1, and the k-th edge (k = 0..n-2) leaves index k: one edge out of every
\* non-final index, none out of the final one.
C1_EdgeCount ==
    Parsed =>
        /\ Len(dependencies) = IF Len(morphemes) >= 2 THEN Len(morphemes) - 1 ELSE 0
        /\ \A k \in EdgeIndices : dependencies[k].fromIndex = k - 1

C1_Witness == pc = "parsed" /\ Len(morphemes) >= 3 /\ Len(dependencies) >= 2

\* C2: every edge points to a valid index strictly to its right,
\* fromIndex < toIndex <= n-1, whether the scan matched or fell back.
C2_Rightward ==
    Parsed =>
        \A k \in EdgeIndices :
            /\ dependencies[k].fromIndex < dependencies[k].toIndex
            /\ dependencies[k].toIndex <= LastIndex

\* one edge whose scan matched before the end, one that fell back to the end
C2_Witness ==
    /\ pc = "parsed"
    /\ \E i \in 0..(LastIndex - 1) :
           /\ PosAt(i) # Jodoushi
           /\ Matches(i) # {}
           /\ TargetsOf(i) = {i + 1}
           /\ i + 1 < LastIndex
    /\ \E i \in 0..(LastIndex - 1) :
           /\ PosAt(i) # Jodoushi
           /\ Matches(i) = {}
           /\ TargetsOf(i) = {LastIndex}

\* the index the edge out of i leads to, -1 when no edge leaves i
Successor(i) == IF TargetsOf(i) = {} THEN -1 ELSE CHOOSE t \in TargetsOf(i) : TRUE

\* the indices visited from i on by following toIndex, at most `fuel` steps
RECURSIVE Walk(_, _)
Walk(i, fuel) ==
    IF fuel = 0 \/ Successor(i) = -1 THEN <<i>>
    ELSE <<i>> \o Walk(Successor(i), fuel - 1)

NoRepeat(path) == \A a, b \in 1..Len(path) : a # b => path[a] # path[b]

\* C3: following toIndex from any index never revisits an index and ends at
\* the final index n-1 after at most n-1 steps: the edges form a forest whose
\* only root is the last morpheme.
C3_ForestRootedAtLast ==
    Parsed =>
        \A i \in 0..LastIndex :
            LET path == Walk(i, Len(morphemes))
            IN  /\ NoRepeat(path)
                /\ path[Len(path)] = LastIndex
                /\ Len(path) - 1 <= LastIndex

\* a walk of two steps, 0 -> 1 -> 2
C3_Witness == pc = "parsed" /\ Len(morphemes) >= 3 /\ Len(Walk(0, Len(morphemes))) >= 3

C5_AuxiliaryToLast ==
    Parsed =>
        \A i \in 0..(LastIndex - 1) :
            PosAt(i) = Jodoushi => TargetsOf(i) = {LastIndex}

\* an auxiliary verb with a verb or a symbol between it and the end
C5_Witness ==
    /\ pc = "parsed"
    /\ \E i \in 0..(LastIndex - 2) :
           /\ PosAt(i) = Jodoushi
           /\ PosAt(i + 1) \in {Doushi, Kigou, Meishi}
           /\ TargetsOf(i) = {LastIndex}

\* the label table of the specification, first match first
LabelFor(fromPos, toPos) ==
    CASE fromPos = Meishi /\ toPos = Joshi -> KakuKankei
      [] fromPos = Keiyoushi /\ toPos = Meishi -> RentaiShuushoku
      [] fromPos = Fukushi /\ toPos = Doushi -> RenyouShuushoku
      [] fromPos = Joshi /\ toPos = Doushi -> KakuKankei
      [] fromPos = Doushi /\ toPos = Jodoushi -> JutsugoKankei
      [] OTHER -> IzonKankei

\* C6: the label of an edge is decided by the pos of its source and the pos of
\* its target alone, by the table above, and is one of the five labels, also
\* on an edge made by the last-index fallback.
C6_LabelTable ==
    Parsed =>
        \A k \in EdgeIndices :
            LET e == dependencies[k]
            IN  /\ e.label = LabelFor(PosAt(e.fromIndex), PosAt(e.toIndex))
                /\ e.label \in {KakuKankei, RentaiShuushoku, RenyouShuushoku,
                                JutsugoKankei, IzonKankei}

\* a particle -> verb edge, and a fallback edge with the general label
C6_Witness ==
    /\ pc = "parsed"
    /\ \E k \in EdgeIndices :
           /\ PosAt(dependencies[k].fromIndex) = Joshi
           /\ PosAt(dependencies[k].toIndex) = Doushi
           /\ dependencies[k].label = KakuKankei
    /\ \E k \in EdgeIndices :
           /\ Matches(dependencies[k].fromIndex) = {}
           /\ dependencies[k].label = IzonKankei

C8_EmptyInput ==
    morphemes = <<>> =>
        /\ Parsed => dependencies = <<>>
        /\ Analyzed => \A c \in DOMAIN fiveW1H : fiveW1H[c] = <<>>

C8_Witness == pc = "analyzed" /\ morphemes = <<>> /\ ~baseline.set

\* the elements of a list that a verb or an adverb morpheme gave rise to
RECURSIVE FromVerbOrAdverb(_, _)
FromVerbOrAdverb(ms, elements) ==
    IF elements = <<>> THEN <<>>
    ELSE IF At(ms, Head(elements).morphemeIndices[1]).pos \in {Doushi, Fukushi}
    THEN <<Head(elements)>> \o FromVerbOrAdverb(ms, Tail(elements))
    ELSE FromVerbOrAdverb(ms, Tail(elements))

\* the number of nouns of ms at the indices below i
NounsBefore(ms, i) == Cardinality({j \in 0..(i - 1) : At(ms, j).pos = Meishi})

\* C9 as stated: after all nouns are removed and the analysis is run again,
\* the Who/What/Where elements that came from verb or adverb morphemes are the
\* same elements as before.
C9_SameElements ==
    pc = "reanalyzed" =>
        \A c \in {"who", "what", "where"} :
            FromVerbOrAdverb(morphemes, fiveW1H[c])
                = FromVerbOrAdverb(baseline.morphemes, baseline.fiveW1H[c])

\* C9 amended: those elements keep their category, text and confidence and
\* their order; the index in morphemeIndices drops by the number of nouns that
\* stood before the morpheme.
C9_SameUpToIndexShift ==
    pc = "reanalyzed" =>
        \A c \in {"who", "what", "where"} :
            LET after == FromVerbOrAdverb(morphemes, fiveW1H[c])
                before == FromVerbOrAdverb(baseline.morphemes, baseline.fiveW1H[c])
            IN  /\ Len(after) = Len(before)
                /\ \A k \in 1..Len(before) :
                       /\ after[k].category = before[k].category
                       /\ after[k].text = before[k].text
                       /\ after[k].confidence = before[k].confidence
                       /\ after[k].morphemeIndices =
                              <<before[k].morphemeIndices[1]
                                  - NounsBefore(baseline.morphemes, before[k].morphemeIndices[1])>>

\* a verb behind a noun: its what element moves to a lower index
C9_Witness ==
    /\ pc = "reanalyzed"
    /\ \E k \in 1..Len(baseline.fiveW1H.what) :
           LET e == baseline.fiveW1H.what[k]
           IN  /\ At(baseline.morphemes, e.morphemeIndices[1]).pos = Doushi
               /\ NounsBefore(baseline.morphemes, e.morphemeIndices[1]) >= 1
    /\ \E k \in 1..Len(fiveW1H.what) : fiveW1H.what[k].confidence = 7

\* 人 方 者 学生 先生 友達 家族 母 父 子 私 僕 君 あなた, as the claim lists them
PersonWordList ==
    <<(<<"HITO">>), (<<"KATA">>), (<<"MONO">>), (<<"GAKU", "SEI">>), (<<"SEN", "SEI">>),
      (<<"TOMO", "DACHI">>), (<<"KA", "ZOKU">>), (<<"HAHA">>), (<<"CHICHI">>), (<<"KO">>),
      (<<"WATASHI">>), (<<"BOKU">>), (<<"KIMI">>), (<<"a", "na", "ta">>)>>

\* word occurs in surface: surface = prefix \o word \o suffix
OccursIn(word, surface) ==
    \E a \in 0..Len(surface) :
        /\ a + Len(word) <= Len(surface)
        /\ \A d \in 1..Len(word) : surface[a + d] = word[d]

\* the morpheme at index i is a Who candidate
QualifiesAsWho(i) ==
    LET m == At(morphemes, i)
    IN  \/ /\ m.pos = Meishi
           /\ \/ m.pos_detail_1 \in {KoyuuMeishi, Daimeishi}
              \/ \E w \in 1..Len(PersonWordList) : OccursIn(PersonWordList[w], m.surface_form)
        \/ m.pos = Daimeishi

\* C10: analyze emits exactly one who element for index i (text the surface
\* form, morphemeIndices [i]) if and only if the morpheme is a noun that is a
\* proper noun, a pronoun or contains a person word, or its pos is pronoun; the
\* confidence is 0.8 when index i+1 exists and its surface is は or が, else 0.4.
C10_Who ==
    Analyzed =>
        /\ \A i \in 0..LastIndex :
               Cardinality({k \in 1..Len(fiveW1H.who) : fiveW1H.who[k].morphemeIndices = <<i>>})
                   = IF QualifiesAsWho(i) THEN 1 ELSE 0
        /\ \A k \in 1..Len(fiveW1H.who) :
               LET e == fiveW1H.who[k]
                   i == e.morphemeIndices[1]
               IN  /\ Len(e.morphemeIndices) = 1
                   /\ i \in 0..LastIndex
                   /\ e.category = "who"
                   /\ e.text = At(morphemes, i).surface_form
                   /\ e.confidence =
                          IF i + 1 <= LastIndex
                               /\ At(morphemes, i + 1).surface_form \in {<<"ha">>, <<"ga">>}
                          THEN 8 ELSE 4

\* 大学生 (contains 学生) before が, and a second candidate without a marker
C10_Witness ==
    /\ pc = "analyzed"
    /\ \E k \in 1..Len(fiveW1H.who) :
           /\ fiveW1H.who[k].text = <<"DAI", "GAKU", "SEI">>
           /\ fiveW1H.who[k].confidence = 8
    /\ \E k \in 1..Len(fiveW1H.who) : fiveW1H.who[k].confidence = 4
    /\ Len(fiveW1H.who) < Len(morphemes)


\* the number of elements of a list with the given index list and confidence
CountOf(elements, indices, confidence) ==
    Cardinality({k \in 1..Len(elements) :
                    /\ elements[k].morphemeIndices = indices
                    /\ elements[k].confidence = confidence})

\* the surface form of the morpheme after index i is one of `markers`
FollowedBy(i, markers) ==
    i + 1 <= LastIndex /\ At(morphemes, i + 1).surface_form \in markers

\* C11: every verb gives one what element with its basic form, [i] and 0.7;
\* every noun whose next morpheme has the surface を gives one what element
\* with its surface form, [i] and 0.8; the what list holds nothing else and no
\* element covers two morphemes.
C11_What ==
    Analyzed =>
        /\ \A i \in 0..LastIndex :
               /\ CountOf(fiveW1H.what, <<i>>, 7) = IF PosAt(i) = Doushi THEN 1 ELSE 0
               /\ CountOf(fiveW1H.what, <<i>>, 8)
                      = IF PosAt(i) = Meishi /\ FollowedBy(i, {<<"wo">>}) THEN 1 ELSE 0
        /\ \A k \in 1..Len(fiveW1H.what) :
               LET e == fiveW1H.what[k]
                   i == e.morphemeIndices[1]
               IN  /\ Len(e.morphemeIndices) = 1
                   /\ i \in 0..LastIndex
                   /\ e.category = "what"
                   /\ e.confidence \in {7, 8}
                   /\ e.confidence = 7 => e.text = At(morphemes, i).basic_form
                   /\ e.confidence = 8 => e.text = At(morphemes, i).surface_form

\* 英語 を 教え: the object 英語 and the verb in its basic form 教える
C11_Witness ==
    /\ pc = "analyzed"
    /\ fiveW1H.what = <<FiveW1HElement("what", <<"EI", "GO">>, <<0>>, 8),
                        FiveW1HElement("what", <<"OSHI", "e", "ru">>, <<2>>, 7)>>


\* C12: a noun whose surface contains a time word gives a when element with
\* 0.9; an adverb whose surface equals a time adverb gives one with 0.8; an
\* adverb that only contains a time adverb gives none; the when list holds
\* nothing else.
C12_When ==
    Analyzed =>
        /\ \A i \in 0..LastIndex :
               /\ CountOf(fiveW1H.when, <<i>>, 9)
                      = IF /\ PosAt(i) = Meishi
                           /\ \E w \in timeWords : OccursIn(w, At(morphemes, i).surface_form)
                        THEN 1 ELSE 0
               /\ CountOf(fiveW1H.when, <<i>>, 8)
                      = IF /\ PosAt(i) = Fukushi
                           /\ \E w \in timeAdverbs : At(morphemes, i).surface_form = w
                        THEN 1 ELSE 0
        /\ \A k \in 1..Len(fiveW1H.when) :
               LET e == fiveW1H.when[k]
                   i == e.morphemeIndices[1]
               IN  /\ Len(e.morphemeIndices) = 1
                   /\ i \in 0..LastIndex
                   /\ e.category = "when"
                   /\ e.confidence \in {8, 9}
                   /\ e.text = At(morphemes, i).surface_form

\* 毎朝 (contains 朝), すぐ, and もうすぐ, which gives nothing
C12_Witness ==
    /\ pc = "analyzed"
    /\ \E i \in 0..LastIndex : At(morphemes, i) = Mousugu
    /\ \E k \in 1..Len(fiveW1H.when) :
           fiveW1H.when[k].text = <<"MAI", "ASA">> /\ fiveW1H.when[k].confidence = 9
    /\ \E k \in 1..Len(fiveW1H.when) :
           fiveW1H.when[k].text = <<"su", "gu">> /\ fiveW1H.when[k].confidence = 8


\* the noun at index i is followed by で, に, から or へ
HasPlaceMarker(i) ==
    PosAt(i) = Meishi /\ FollowedBy(i, {<<"de">>, <<"ni">>, <<"ka", "ra">>, <<"he">>})

\* the noun at index i is a proper noun of the region kind
IsPlaceName(i) ==
    /\ PosAt(i) = Meishi
    /\ At(morphemes, i).pos_detail_1 = KoyuuMeishi
    /\ At(morphemes, i).pos_detail_2 = Chiiki

\* C13: a noun followed by で, に, から or へ gives a where element with 0.8;
\* a noun that is a proper noun of the region kind gives one with 0.9; a noun
\* that is both gives the two, the 0.8 one immediately before the 0.9 one.
C13_Where ==
    Analyzed =>
        /\ \A i \in 0..LastIndex :
               /\ CountOf(fiveW1H.where, <<i>>, 8) = IF HasPlaceMarker(i) THEN 1 ELSE 0
               /\ CountOf(fiveW1H.where, <<i>>, 9) = IF IsPlaceName(i) THEN 1 ELSE 0
               /\ (HasPlaceMarker(i) /\ IsPlaceName(i)) =>
                      \E k \in 1..(Len(fiveW1H.where) - 1) :
                          /\ fiveW1H.where[k].morphemeIndices = <<i>>
                          /\ fiveW1H.where[k].confidence = 8
                          /\ fiveW1H.where[k + 1].morphemeIndices = <<i>>
                          /\ fiveW1H.where[k + 1].confidence = 9
        /\ \A k \in 1..Len(fiveW1H.where) :
               LET e == fiveW1H.where[k]
                   i == e.morphemeIndices[1]
               IN  /\ Len(e.morphemeIndices) = 1
                   /\ i \in 0..LastIndex
                   /\ e.category = "where"
                   /\ e.confidence \in {8, 9}
                   /\ e.text = At(morphemes, i).surface_form

\* 東京 で: two elements for index 0; and a plain noun before a marker
C13_Witness ==
    /\ pc = "analyzed"
    /\ Len(fiveW1H.where) >= 2
    /\ fiveW1H.where[1] = FiveW1HElement("where", <<"TOU", "KYOU">>, <<0>>, 8)
    /\ fiveW1H.where[2] = FiveW1HElement("where", <<"TOU", "KYOU">>, <<0>>, 9)


\* the morpheme at index i is a particle with the surface ので, から or ため
IsReasonParticle(i) ==
    /\ PosAt(i) = Joshi
    /\ At(morphemes, i).surface_form \in {<<"no", "de">>, <<"ka", "ra">>, <<"ta", "me">>}

\* C14: a particle ので, から or ため at index i > 0 gives exactly one why
\* element, with the surface of morpheme i-1 as text, [i-1, i] and 0.7; at
\* index 0 it gives none; nothing else gives a why element.
C14_Why ==
    Analyzed =>
        /\ \A i \in 0..LastIndex :
               Cardinality({k \in 1..Len(fiveW1H.why) :
                               fiveW1H.why[k].morphemeIndices[Len(fiveW1H.why[k].morphemeIndices)] = i})
                   = IF IsReasonParticle(i) /\ i > 0 THEN 1 ELSE 0
        /\ \A k \in 1..Len(fiveW1H.why) :
               LET e == fiveW1H.why[k]
                   i == e.morphemeIndices[Len(e.morphemeIndices)]
               IN  /\ i \in 1..LastIndex
                   /\ e.morphemeIndices = <<i - 1, i>>
                   /\ e.category = "why"
                   /\ e.confidence = 7
                   /\ e.text = At(morphemes, i - 1).surface_form

\* から 英語 ので: nothing for から at index 0, 英語 [1, 2] for ので
C14_Witness ==
    /\ pc = "analyzed"
    /\ Len(morphemes) >= 3
    /\ At(morphemes, 0) = Kara
    /\ fiveW1H.why = <<FiveW1HElement("why", <<"EI", "GO">>, <<1, 2>>, 7)>>


C16_EdgesIgnored ==
    pc = "edgesGiven" => (baseline.set /\ fiveW1H = baseline.fiveW1H)

\* 大学生 が ... analyzed with one edge that is not the parser's
C16_Witness ==
    /\ pc = "edgesGiven"
    /\ Len(dependencies) = 1
    /\ dependencies # parseDependencies(morphemes)
    /\ Len(parseDependencies(morphemes)) >= 2
    /\ Len(fiveW1H.who) >= 1
    /\ fiveW1H.who[1].confidence = 8


\* the six lists under their names
CategoryNames == {"who", "what", "when", "where", "why", "how"}

\* the first entries of morphemeIndices never decrease along the list
InIndexOrder(elements) ==
    \A k \in 1..Len(elements) :
        /\ Len(elements[k].morphemeIndices) >= 1
        /\ k > 1 => elements[k - 1].morphemeIndices[1] <= elements[k].morphemeIndices[1]

\* C17: in each of the six lists the elements stand in the index order of the
\* morphemes that gave them: the first entries of morphemeIndices are
\* non-decreasing along the list.
C17_IndexOrder ==
    Analyzed => \A name \in CategoryNames : InIndexOrder(fiveW1H[name])

\* 教え 英語 を: the verb at 0 stands before the object at 1
C17_Witness ==
    /\ pc = "analyzed"
    /\ Len(fiveW1H.what) = 2
    /\ fiveW1H.what[1].morphemeIndices = <<0>>
    /\ fiveW1H.what[1].confidence = 7
    /\ fiveW1H.what[2].morphemeIndices = <<1>>
    /\ fiveW1H.what[2].confidence = 8

\* C18: every element of every list has a confidence among 0.4, 0.6, 0.7,
\* 0.8 and 0.9, so above 0 and at most 1, and its category is the name of the
\* list that holds it.
C18_ConfidenceAndCategory ==
    Analyzed =>
        \A name \in CategoryNames :
            \A k \in 1..Len(fiveW1H[name]) :
                /\ fiveW1H[name][k].confidence \in {4, 6, 7, 8, 9}
                /\ fiveW1H[name][k].confidence > 0
                /\ fiveW1H[name][k].confidence <= 10
                /\ fiveW1H[name][k].category = name

\* 東京 で 教え: a where element at 0.9, a how element at 0.6 and a what
\* element at 0.7, each under its own name
C18_Witness ==
    /\ pc = "analyzed"
    /\ \E k \in 1..Len(fiveW1H.where) :
           fiveW1H.where[k].confidence = 9 /\ fiveW1H.where[k].category = "where"
    /\ \E k \in 1..Len(fiveW1H.how) :
           fiveW1H.how[k].confidence = 6 /\ fiveW1H.how[k].category = "how"
    /\ \E k \in 1..Len(fiveW1H.what) :
           fiveW1H.what[k].confidence = 7 /\ fiveW1H.what[k].category = "what"


\* the edge list holds the edge from -> to under that label
HasEdge(from, to, label) ==
    \E k \in 1..Len(dependencies) : dependencies[k] = DependencyRelation(from, to, label)

\* C19: for the 13 morphemes of 先生が教室で学生にゆっくり英語を教えました。
\* parseDependencies gives the edge 0 -> 1 labelled 格関係, the edge 6 -> 9
\* labelled 連用修飾 and the edge 9 -> 10 labelled 述語関係.
C19_ExampleEdges ==
    (Parsed /\ morphemes = ExampleSentence) =>
        /\ HasEdge(0, 1, KakuKankei)
        /\ HasEdge(6, 9, RenyouShuushoku)
        /\ HasEdge(9, 10, JutsugoKankei)

\* the whole sentence parsed: twelve edges, one per morpheme but the last
C19_Witness ==
    /\ pc = "parsed"
    /\ morphemes = ExampleSentence
    /\ Len(dependencies) = 12
    /\ \A k \in 1..12 : dependencies[k].fromIndex = k - 1

\* the list holds an element of that category, text, single index and confidence
HasElement(elements, category, text, index, confidence) ==
    \E k \in 1..Len(elements) :
        elements[k] = FiveW1HElement(category, text, <<index>>, confidence)

\* C20: for the same sentence analyze gives a who list with 先生 (index 0,
\* 0.8), a what list with 教える (index 9, 0.7) and 英語 (index 7, 0.8), a
\* where list with 教室 (index 2, 0.8) and a how list with ゆっくり (index 6,
\* 0.7).
C20_ExampleRoles ==
    (Analyzed /\ morphemes = ExampleSentence) =>
        /\ HasElement(fiveW1H.who, "who", <<"SEN", "SEI">>, 0, 8)
        /\ HasElement(fiveW1H.what, "what", <<"OSHI", "e", "ru">>, 9, 7)
        /\ HasElement(fiveW1H.what, "what", <<"EI", "GO">>, 7, 8)
        /\ HasElement(fiveW1H.where, "where", <<"OSHI", "SHITSU">>, 2, 8)
        /\ HasElement(fiveW1H.how, "how", <<"yu", "xtu", "ku", "ri">>, 6, 7)

\* the whole sentence analyzed: the lists also hold 学生 as a who element at
\* 0.4 and 教室 as a how element at 0.6, and no when or why element
C20_Witness ==
    /\ pc = "analyzed"
    /\ morphemes = ExampleSentence
    /\ Len(fiveW1H.who) = 2
    /\ HasElement(fiveW1H.who, "who", <<"GAKU", "SEI">>, 4, 4)
    /\ Len(fiveW1H.what) = 2
    /\ HasElement(fiveW1H.how, "how", <<"OSHI", "SHITSU">>, 2, 6)
    /\ fiveW1H.when = <<>>
    /\ fiveW1H.why = <<>>


\* the indices findDependencyTarget and getDependencyLabel read for one source
\* index: the index itself, the scanned indices up to the target, the target
parserReadsAt(ms, currentIndex) ==
    LET target == findDependencyTarget(ms, currentIndex)
    IN  {currentIndex}
            \cup (IF target = -1 THEN {}
                  ELSE IF At(ms, currentIndex).pos = Jodoushi THEN {target}
                  ELSE (currentIndex + 1)..target)

\* parseDependencies: i from 0 while i < length - 1
parserReads(ms) == UNION {parserReadsAt(ms, i) : i \in 0..(Len(ms) - 2)}

\* the index a has*Marker method reads: index + 1 when it is below the length
markerReads(ms, index) == IF index + 1 < Len(ms) THEN {index + 1} ELSE {}

\* the index extractReasonPhrase and getReasonIndices read: the one before the
\* marker when the marker is not the first morpheme
reasonReads(ms, reasonMarkerIndex) ==
    IF reasonMarkerIndex > 0 THEN {reasonMarkerIndex - 1} ELSE {}

\* the six loops read every i below the length, the marker checks and the why
\* rule read around it
analyzerReads(ms) ==
    UNION {{i} \cup markerReads(ms, i)
               \cup (IF At(ms, i).pos = Joshi /\ isReasonMarker(At(ms, i).surface_form)
                     THEN reasonReads(ms, i) ELSE {})
           : i \in 0..(Len(ms) - 1)}

\* C23: every index parseDependencies and analyze read lies in 0..n-1; the
\* marker checks answer false for the last morpheme, so a noun in the last
\* position gives no what element at 0.8, no where element at 0.8, no how
\* element at 0.6 and a who element only at 0.4; a reason marker at index 0
\* gives no why element, so index -1 is never read.
C23_IndicesInRange ==
    /\ Parsed => parserReads(morphemes) \subseteq 0..LastIndex
    /\ Analyzed =>
           /\ analyzerReads(morphemes) \subseteq 0..LastIndex
           /\ LastIndex >= 0 =>
                  /\ ~hasSubjectMarker(morphemes, LastIndex)
                  /\ ~hasObjectMarker(morphemes, LastIndex)
                  /\ ~hasLocationMarker(morphemes, LastIndex)
                  /\ ~hasMethodMarker(morphemes, LastIndex)
                  /\ CountOf(fiveW1H.what, <<LastIndex>>, 8) = 0
                  /\ CountOf(fiveW1H.where, <<LastIndex>>, 8) = 0
                  /\ CountOf(fiveW1H.how, <<LastIndex>>, 6) = 0
                  /\ CountOf(fiveW1H.who, <<LastIndex>>, 8) = 0
           /\ \A k \in 1..Len(fiveW1H.why) :
                  \A j \in 1..Len(fiveW1H.why[k].morphemeIndices) :
                      fiveW1H.why[k].morphemeIndices[j] >= 0

\* から 英語 東京: the reason marker stands first and gives no why element;
\* 東京 stands last and is a who element at 0.4 and a where element at 0.9 only
C23_Witness ==
    /\ pc = "analyzed"
    /\ morphemes = <<Kara, Eigo, Tokyo>>
    /\ fiveW1H.why = <<>>
    /\ fiveW1H.who = <<FiveW1HElement("who", Tokyo.surface_form, <<2>>, 4)>>
    /\ fiveW1H.where = <<FiveW1HElement("where", Tokyo.surface_form, <<2>>, 9)>>
    /\ fiveW1H.what = <<>>
    /\ fiveW1H.how = <<>>


\* the entries are valid indices of the input and strictly increasing
ValidIndices(indices) ==
    /\ Len(indices) >= 1
    /\ \A j \in 1..Len(indices) : indices[j] \in 0..LastIndex
    /\ \A j \in 2..Len(indices) : indices[j - 1] < indices[j]

\* C24: every element has a non-empty, strictly increasing morphemeIndices
\* list of valid indices: one index for who, what, when, where and how, the
\* two indices [i-1, i] with the reason marker at i for why; the one-index
\* fallback of getReasonIndices is never in an element.
C24_MorphemeIndices ==
    Analyzed =>
        /\ \A name \in CategoryNames :
               \A k \in 1..Len(fiveW1H[name]) :
                   /\ ValidIndices(fiveW1H[name][k].morphemeIndices)
                   /\ Len(fiveW1H[name][k].morphemeIndices) = IF name = "why" THEN 2 ELSE 1
        /\ \A k \in 1..Len(fiveW1H.why) :
               LET indices == fiveW1H.why[k].morphemeIndices
               IN  /\ indices[1] = indices[2] - 1
                   /\ PosAt(indices[2]) = Joshi
                   /\ isReasonMarker(At(morphemes, indices[2]).surface_form)

\* から 英語 ので: the first marker gives nothing, the second gives 英語 with
\* [1, 2]; 英語 is in no other list
C24_Witness ==
    /\ pc = "analyzed"
    /\ morphemes = <<Kara, Eigo, Node>>
    /\ fiveW1H.why = <<FiveW1HElement("why", Eigo.surface_form, <<1, 2>>, 7)>>
    /\ getReasonIndices(morphemes, 0) = <<0>>

\* the elements of the list that a morpheme index triggered: the index itself,
\* for a why element the marker's index
TriggeredBy(name, i) ==
    {k \in 1..Len(fiveW1H[name]) :
         LET indices == fiveW1H[name][k].morphemeIndices
         IN  indices[Len(indices)] = i}

\* C26: who, what, when, why and how hold at most one element per triggering
\* index and where at most two; two elements of one list with the same
\* morphemeIndices are where elements at 0.8 and 0.9; a list has at most n
\* elements, where at most 2n.
C26_Multiplicity ==
    Analyzed =>
        /\ \A name \in CategoryNames :
               /\ \A i \in 0..LastIndex :
                      Cardinality(TriggeredBy(name, i)) <= IF name = "where" THEN 2 ELSE 1
               /\ Len(fiveW1H[name]) <= (IF name = "where" THEN 2 ELSE 1) * Len(morphemes)
               /\ \A k, l \in 1..Len(fiveW1H[name]) :
                      (k < l /\ fiveW1H[name][k].morphemeIndices = fiveW1H[name][l].morphemeIndices)
                          => /\ name = "where"
                             /\ fiveW1H[name][k].confidence = 8
                             /\ fiveW1H[name][l].confidence = 9

\* 東京 へ 東京: the first 東京 twice in where (0.8 then 0.9), the second once
C26_Witness ==
    /\ pc = "analyzed"
    /\ morphemes = <<Tokyo, He, Tokyo>>
    /\ Len(fiveW1H.where) = 3
    /\ Cardinality(TriggeredBy("where", 0)) = 2
    /\ Cardinality(TriggeredBy("where", 2)) = 1
    /\ Len(fiveW1H.who) = 2


\* every initialize call has run to its end and no handler is running: only
\* the user can take the next step
Quiescent ==
    /\ promises # <<>>
    /\ \A k \in 1..Len(promises) : promises[k] \in {"awaited", "failed"}
    /\ ~isLoading

\* C21: results come as the user types: once the dictionary is loaded and
\* nothing but a user action can happen, the result shown is the analysis of
\* the text in the text area.
C21_RealTime ==
    (Quiescent /\ isReady /\ trim(inputText) # <<>>) =>
        /\ ~analysisResult.isNull
        /\ analysisResult.morphemes = tokenize(kuromojiAnalyzer, inputText, FALSE).tokens

\* C22: tokenize, parseDependencies and analyze run only in a step that starts
\* with the tokenizer built by a successful initialize; the error "Analyzer
\* not initialized" is never caught in analyzeText; the button is enabled only
\* when isReady() holds.
C22_CoreOnlyWhenReady ==
    /\ [](caught # NotInitialized)
    /\ [](isReady => isReadyMethod(kuromojiAnalyzer))
    /\ [][(pc' # pc \/ morphemes' # morphemes \/ caught' # caught
               \/ analysisResult' # analysisResult)
              => /\ isReadyMethod(kuromojiAnalyzer)
                 /\ kuromojiAnalyzer.tokenizer = "tokenizer"
                 /\ Succeeded]_vars

\* the dictionary loaded, 英を typed and analyzed
C22_Witness ==
    /\ promises = <<"awaited">>
    /\ inputText = <<"EI", "wo">>
    /\ pc = "analyzed"
    /\ ~analysisResult.isNull
    /\ Len(analysisResult.morphemes) = 2
    /\ analysisResult.morphemes[2] = Wo
    /\ analysisResult.fiveW1H.what = <<FiveW1HElement("what", <<"EI">>, <<0>>, 8)>>

\* C25: isReady() holds exactly when some build has succeeded, and tokenize
\* throws exactly when none has; isInitialized holds exactly when tokenizer is
\* not null; a failed build rejects its promise and leaves the analyzer as it
\* was; once ready the analyzer stays ready.
C25_Readiness ==
    /\ [](/\ isReadyMethod(kuromojiAnalyzer) <=> Succeeded
          /\ kuromojiAnalyzer.isInitialized <=> kuromojiAnalyzer.tokenizer # "null"
          /\ \A text \in Texts :
                 tokenize(kuromojiAnalyzer, text, FALSE).threw <=> ~Succeeded
          /\ caught \in {"none", NotInitialized})
    /\ [][/\ isReadyMethod(kuromojiAnalyzer) => isReadyMethod(kuromojiAnalyzer')
          /\ (\E k \in 1..Len(promises) :
                  /\ Len(promises') = Len(promises)
                  /\ promises[k] = "pending"
                  /\ promises'[k] = "rejected") => kuromojiAnalyzer' = kuromojiAnalyzer
          /\ (caught' = NotInitialized /\ caught # NotInitialized) => ~Succeeded
          /\ (pc' = "tokenized" /\ pc # "tokenized") => Succeeded]_vars

\* tokenize threw before any build had succeeded; then one build failed and a
\* later one succeeded
C25_Witness ==
    /\ promises = <<"rejected", "resolved">>
    /\ caught = NotInitialized
    /\ pc = "failed"
    /\ isReadyMethod(kuromojiAnalyzer)

\* C27: an error thrown in analyzeText is caught, analysisResult keeps the
\* value it had before the click and isLoading is false again; after every
\* analyzeText run isLoading is false.
C27_ErrorHandling ==
    /\ [](isLoading = FALSE)
    /\ [](ButtonDisabled <=> (~isReady \/ trim(inputText) = <<>>))
    /\ [][pc' = "failed" => analysisResult' = analysisResult]_vars

\* を analyzed, then 英語 typed after it and the tokenizer threw: the result of
\* を is still shown
C27_Witness ==
    /\ pc = "failed"
    /\ caught = "tokenizer error"
    /\ inputText = <<"wo", "EI">>
    /\ ~analysisResult.isNull
    /\ analysisResult.morphemes = <<Wo>>
    /\ ~isLoading


\* the type the character has by itself
TypeOfChar(char) ==
    IF char \in HiraganaChars THEN "hiragana"
    ELSE IF char \in KatakanaChars THEN "katakana"
    ELSE IF char \in KanjiChars THEN "kanji"
    ELSE IF char \in AlphabetChars THEN "alphabet"
    ELSE IF char \in NumberChars THEN "number"
    ELSE "symbol"

\* C28: tokenize gives every hiragana, katakana and kanji character the type
\* of the character, whatever was classified before it, and a second call on
\* the same instance with the same text returns the same tokens.
C28_ByCharacterAlone ==
    /\ \A k \in 1..Len(tokenized.text) : tokenized.types[k] = TypeOfChar(tokenized.text[k])
    /\ tokenized.repeated => tokenized.same

====
